---------------------------- MODULE Spec2Model ----------------------------
(***************************************************************************)
(* A model of the active-learning pipeline of KMU-AELAB/Active-Learning:   *)
(*   src/main.py            the entry point (the cycle loop)               *)
(*   src/query/strategy.py  Strategy: trains the uncertainty network       *)
(*   src/query/graph/vae.py the uncertainty network (tensor shapes)        *)
(*   src/task/graph/loss.py RankingLoss.forward                            *)
(*                                                                         *)
(* Three specifications share the module:                                  *)
(*   Spec      the program, from main.py line 9 on                         *)
(*   SpecLoss  RankingLoss.forward applied to a batch drawn in LossInit    *)
(*   SpecVae   the shapes of the tensors through VAE.forward and           *)
(*             Decoder.forward                                             *)
(***************************************************************************)
EXTENDS Integers, Sequences, FiniteSets, TLC

VARIABLES
    \* ---- RankingLoss.forward (src/task/graph/loss.py) ----
    batch_pred,     \* the argument pred_loss as passed in
    batch_target,   \* the argument target_loss as passed in
    pred_loss,      \* the local pred_loss (rebound at line 22)
    target_loss,    \* the local target_loss (rebound at lines 24-25)
    one,            \* the local one (line 27)
    loss,           \* the local loss (lines 29-30)
    lpc,            \* the next line of forward to run
    \* ---- the uncertainty network (src/query/graph/vae.py) ----
    hparams,        \* the constructor arguments of VAE and Decoder
    x,              \* the shape of the batch VAE.forward is given
    encoder_out,    \* the shape of encoder_out (line 151)
    x_conv,         \* the shape of _x (line 152)
    vpc,            \* the next line of VAE.forward to run
    inputs,         \* the shape of the tensor Decoder.forward is given
    x_recon,        \* the shape Decoder.forward returns
    dpc,            \* whether Decoder.forward has run
    \* ---- the program (src/main.py, src/query/strategy.py) ----
    network,        \* the interface of the class bound to the name vae
    config,         \* Config(): max_cycle, budge_size, epoch
    loader,         \* len(train_loader) and len(test_loader), in batches
    pc,             \* the statement about to run
    exc,            \* the exception being raised, or "none"
    next_step,      \* the next value of range(config.max_cycle)
    step_cnt,       \* main.py's step_cnt
    labeled,        \* len(query.labeled)
    task,           \* main.py's task: its cycle, its copy of labeled, best_acc
    stdout,         \* the lines printed by main.py and by run's handler
    trace,          \* the calls of main.py that have returned, in order
    self,           \* the Strategy: step_cnt, best_acc, epoch, the
                    \* classifier's weights, the optimizer steps of the network
    frame,          \* the locals of train and train_by_epoch
    ops,            \* what the current training batch has done, in order
    task_file,      \* task.pth.tar
    vae_file        \* vae.pth.tar

lossVars == <<batch_pred, batch_target, pred_loss, target_loss, one, loss, lpc>>
vaeVars == <<hparams, x, encoder_out, x_conv, vpc, inputs, x_recon, dpc>>

progVars == <<network, config, loader, pc, exc, next_step, step_cnt, labeled,
              task, stdout, trace, self, frame, ops, task_file, vae_file>>

vars == <<batch_pred, batch_target, pred_loss, target_loss, one, loss, lpc,
          hparams, x, encoder_out, x_conv, vpc, inputs, x_recon, dpc,
          network, config, loader, pc, exc, next_step, step_cnt, labeled,
          task, stdout, trace, self, frame, ops, task_file, vae_file>>

(***************************************************************************)
(* Bounds of the model.                                                    *)
(***************************************************************************)
\* the longest batch RankingLoss.forward is applied to
MaxLen == 4
\* config.max_cycle is drawn from 1..MaxCycle
MaxCycle == 2
\* config.epoch is drawn from 0..MaxEpoch
MaxEpoch == 2
\* the data loaders hold 1..MaxBatches batches
MaxBatches == 2

(***************************************************************************)
(* src/task/graph/loss.py: RankingLoss.forward on 1-d tensors.             *)
(* A 1-d tensor is a sequence of integers; the scalar the function returns *)
(* is kept as the exact quotient num/den (nan when it is 0/0).             *)
(***************************************************************************)

\* tensor.flip(0)
Flip(t) == [i \in 1..Len(t) |-> t[Len(t) + 1 - i]]

\* a - b, elementwise, for two tensors of one length
Sub(a, b) == [i \in 1..Len(a) |-> a[i] - b[i]]

\* the mutant of HalfLen: the half rounded up
HalfLenCeil(n) == (n + 1) \div 2

\* len(t) // 2
HalfLen(n) == n \div 2

\* t[:n]
Prefix(t, n) == SubSeq(t, 1, n)

\* (t - t.flip(0))[:len(t)//2]
PairDiff(t) == Prefix(Sub(t, Flip(t)), HalfLen(Len(t)))

\* the mutant of ClampMin0: no clamping
NoClamp(v) == v

\* torch.clamp(v, min=0) of one element
ClampMin0(v) == IF v < 0 THEN 0 ELSE v

\* torch.sign of one element
Sign(v) == IF v > 0 THEN 1 ELSE IF v < 0 THEN -1 ELSE 0

\* 2 * torch.sign(torch.clamp(t, min=0)) - 1
SignOne(t) == [i \in 1..Len(t) |-> 2 * Sign(ClampMin0(t[i])) - 1]

\* whether a * b broadcasts: equal lengths, or one of them of length 1
Broadcasts(a, b) == Len(a) = Len(b) \/ Len(a) = 1 \/ Len(b) = 1

\* a * b, elementwise with broadcasting
Mul(a, b) ==
    LET n == IF Len(a) >= Len(b) THEN Len(a) ELSE Len(b)
        at(t, i) == IF Len(t) = 1 THEN t[1] ELSE t[i]
    IN  [i \in 1..n |-> at(a, i) * at(b, i)]

\* torch.sum of a 1-d tensor
RECURSIVE Sum(_)
Sum(t) == IF Len(t) = 0 THEN 0 ELSE t[1] + Sum(Tail(t))

\* torch.sum(torch.clamp(1.0 - one * pred_loss, min=0))
HingeSum(o, p) ==
    LET m == Mul(o, p)
    IN  Sum([i \in 1..Len(m) |-> ClampMin0(1 - m[i])])

\* the mutant of Divisor: the size of the batch, not of the pairs
DivisorBatch(p) == 2 * Len(p)

\* pred_loss.size(0), of the local pred_loss
Divisor(p) == Len(p)

\* loss / pred_loss.size(0): 0/0 is nan, as for floats
Quotient(n, d) == [nan |-> d = 0, num |-> n, den |-> d]

NoTensor == << >>
NoLoss == [nan |-> FALSE, num |-> 0, den |-> 1]

\* the whole of forward, lines 21-32, for operands that broadcast
Forward(p, t) ==
    LET pd == PairDiff(p)
        td == PairDiff(t)
    IN  Quotient(HingeSum(SignOne(td), pd), Divisor(pd))

\* the values the predicted and the target losses of a batch are drawn from:
\* differences of predictions fall below, on and above the margin 1, and
\* differences of targets are negative, zero and positive
PredLosses == {0, 1, 2}
TargetLosses == {0, 1}

\* forward is not running
LossIdle ==
    /\ batch_pred = NoTensor
    /\ batch_target = NoTensor
    /\ pred_loss = NoTensor
    /\ target_loss = NoTensor
    /\ one = NoTensor
    /\ loss = NoLoss
    /\ lpc = "idle"

\* the batches forward is applied to: pred_loss and target_loss of one length
LossStart ==
    /\ \E n \in 1..MaxLen :
          /\ batch_pred \in [1..n -> PredLosses]
          /\ batch_target \in [1..n -> TargetLosses]
    /\ pred_loss = batch_pred
    /\ target_loss = batch_target
    /\ one = NoTensor
    /\ loss = NoLoss
    /\ lpc = "l22"

\* line 22
LossPredDiff ==
    /\ lpc = "l22"
    /\ pred_loss' = PairDiff(pred_loss)
    /\ lpc' = "l24"
    /\ UNCHANGED <<batch_pred, batch_target, target_loss, one, loss>>

\* lines 24-25 (detach leaves the values as they are)
LossTargetDiff ==
    /\ lpc = "l24"
    /\ target_loss' = PairDiff(target_loss)
    /\ lpc' = "l27"
    /\ UNCHANGED <<batch_pred, batch_target, pred_loss, one, loss>>

\* line 27
LossOne ==
    /\ lpc = "l27"
    /\ one' = SignOne(target_loss)
    /\ lpc' = "l29"
    /\ UNCHANGED <<batch_pred, batch_target, pred_loss, target_loss, loss>>

\* line 29: the product raises when the two operands do not broadcast
LossHinge ==
    /\ lpc = "l29"
    /\ IF Broadcasts(one, pred_loss)
       THEN /\ loss' = [nan |-> FALSE, num |-> HingeSum(one, pred_loss), den |-> 1]
            /\ lpc' = "l30"
       ELSE /\ loss' = loss
            /\ lpc' = "shape_error"
    /\ UNCHANGED <<batch_pred, batch_target, pred_loss, target_loss, one>>

\* lines 30-32
LossDivide ==
    /\ lpc = "l30"
    /\ loss' = Quotient(loss.num, Divisor(pred_loss))
    /\ lpc' = "returned"
    /\ UNCHANGED <<batch_pred, batch_target, pred_loss, target_loss, one>>

(***************************************************************************)
(* src/query/graph/vae.py: the shapes of the tensors.  A 4-d tensor is     *)
(* its shape <<batch, channels, height, width>>; a layer applied to a      *)
(* tensor it does not accept raises, which is the shape Mismatch.          *)
(***************************************************************************)
Mismatch == << >>

\* the output side of nn.Conv2d for an input side n
ConvSide(n, k, s, p) == (n + 2 * p - k) \div s + 1

\* the output side of nn.ConvTranspose2d for an input side n
ConvTransposeSide(n, k, s, p) == (n - 1) * s - 2 * p + k

\* nn.Conv2d(in_channels, out_channels, kernel_size, stride, padding)
Conv2d(cin, cout, k, s, p, t) ==
    IF t = Mismatch \/ t[2] # cin
    THEN Mismatch
    ELSE <<t[1], cout, ConvSide(t[3], k, s, p), ConvSide(t[4], k, s, p)>>

\* nn.ConvTranspose2d(in_channels, out_channels, kernel_size, stride, padding)
ConvTranspose2d(cin, cout, k, s, p, t) ==
    IF t = Mismatch \/ t[2] # cin
    THEN Mismatch
    ELSE <<t[1], cout, ConvTransposeSide(t[3], k, s, p),
           ConvTransposeSide(t[4], k, s, p)>>

\* a + b of two tensors of one shape (no broadcasting arises in this file)
Add(a, b) == IF a = b THEN a ELSE Mismatch

\* Residual.forward, lines 7-22: x + block(x), the block a 3x3 convolution
\* to num_residual_hiddens channels and a 1x1 convolution to num_hiddens
Residual(cin, num_hiddens, num_residual_hiddens, t) ==
    Add(t, Conv2d(num_residual_hiddens, num_hiddens, 1, 1, 0,
                  Conv2d(cin, num_residual_hiddens, 3, 1, 1, t)))

\* ResidualStack.forward, lines 25-35
RECURSIVE ResidualStack(_, _, _, _, _)
ResidualStack(cin, num_hiddens, num_residual_layers, num_residual_hiddens, t) ==
    IF num_residual_layers = 0
    THEN t
    ELSE ResidualStack(cin, num_hiddens, num_residual_layers - 1,
                       num_residual_hiddens,
                       Residual(cin, num_hiddens, num_residual_hiddens, t))

\* Encoder(in_channels, ...).forward, lines 38-68 (relu keeps the shape)
Encoder(cin, h, t) ==
    ResidualStack(h.num_hiddens, h.num_hiddens, h.num_residual_layers,
                  h.num_residual_hiddens,
        Conv2d(h.num_hiddens, h.num_hiddens, 3, 1, 1,
        Conv2d(h.num_hiddens \div 2, h.num_hiddens, 4, 2, 1,
        Conv2d(cin, h.num_hiddens \div 2, 4, 2, 1, t))))

\* Decoder(in_channels, ...).forward, lines 71-111
Decoder(cin, h, t) ==
    ConvTranspose2d(h.num_hiddens \div 4, 3, 4, 2, 1,
    ConvTranspose2d(h.num_hiddens \div 2, h.num_hiddens \div 4, 4, 2, 1,
    ConvTranspose2d(h.num_hiddens, h.num_hiddens \div 2, 4, 2, 1,
    ResidualStack(h.num_hiddens, h.num_hiddens, h.num_residual_layers,
                  h.num_residual_hiddens,
        Conv2d(cin, h.num_hiddens, 3, 1, 1, t)))))

\* VAE.conv1, lines 126-129
VaeConv1(h, t) == Conv2d(h.num_hiddens, h.num_hiddens, 3, 2, 1, t)

\* the features per example nn.Linear finds in a tensor: its last dimension
LinearFeatures(t) == t[Len(t)]

\* in_features of fc_mu and of fc_var, lines 131-132
FcInFeatures(h) == h.num_hiddens * 16

\* the constructor arguments the shapes are computed for; num_hiddens is at
\* least 4, so that num_hiddens // 4 channels are at least one
NumHiddens == {4, 6, 8}
NumResidualLayers == {0, 1, 2}
NumResidualHiddens == {1, 2}
EmbeddingDims == {1, 2, 3}
BatchSizes == {1, 2}
ImageSides == {32}
DecoderInputSides == {4}

VaeIdle ==
    /\ hparams = [num_hiddens |-> 4, num_residual_layers |-> 0,
                  num_residual_hiddens |-> 1, embedding_dim |-> 1]
    /\ x = Mismatch
    /\ encoder_out = Mismatch
    /\ x_conv = Mismatch
    /\ vpc = "idle"
    /\ inputs = Mismatch
    /\ x_recon = Mismatch
    /\ dpc = "idle"

\* VAE.forward is given a batch of 3-channel images, and Decoder.forward a
\* batch of (embedding_dim + num_hiddens)-channel tensors
VaeStart ==
    /\ hparams \in [num_hiddens : NumHiddens,
                    num_residual_layers : NumResidualLayers,
                    num_residual_hiddens : NumResidualHiddens,
                    embedding_dim : EmbeddingDims]
    /\ \E b \in BatchSizes, side \in ImageSides, dside \in DecoderInputSides :
          /\ x = <<b, 3, side, side>>
          /\ inputs = <<b, hparams.embedding_dim + hparams.num_hiddens,
                        dside, dside>>
    /\ encoder_out = Mismatch
    /\ x_conv = Mismatch
    /\ vpc = "l151"
    /\ x_recon = Mismatch
    /\ dpc = "l101"

\* VAE.forward line 151: self._encoder is Encoder(3, ...), line 123
VaeEncode ==
    /\ vpc = "l151"
    /\ encoder_out' = Encoder(3, hparams, x)
    /\ vpc' = IF encoder_out' = Mismatch THEN "size_mismatch" ELSE "l152"
    /\ UNCHANGED <<hparams, x, x_conv, inputs, x_recon, dpc>>

\* VAE.forward line 152
VaeDownsample ==
    /\ vpc = "l152"
    /\ x_conv' = VaeConv1(hparams, encoder_out)
    /\ vpc' = IF x_conv' = Mismatch THEN "size_mismatch" ELSE "l154"
    /\ UNCHANGED <<hparams, x, encoder_out, inputs, x_recon, dpc>>

\* VAE.forward line 154: fc_mu is applied to encoder_out as it is, and
\* raises unless its last dimension is in_features.  No state reaches line
\* 155, and the lines after it are not modelled.
VaeFcMu ==
    /\ vpc = "l154"
    /\ vpc' = IF LinearFeatures(encoder_out) = FcInFeatures(hparams)
              THEN "l155" ELSE "size_mismatch"
    /\ UNCHANGED <<hparams, x, encoder_out, x_conv, inputs, x_recon, dpc>>

\* Decoder.forward, lines 100-111, of Decoder(embedding_dim + num_hiddens,
\* ...), line 138
DecoderForward ==
    /\ dpc = "l101"
    /\ x_recon' = Decoder(hparams.embedding_dim + hparams.num_hiddens,
                          hparams, inputs)
    /\ dpc' = IF x_recon' = Mismatch THEN "size_mismatch" ELSE "returned"
    /\ UNCHANGED <<hparams, x, encoder_out, x_conv, vpc, inputs>>

(***************************************************************************)
(* The program: src/main.py and src/query/strategy.py.                     *)
(*                                                                         *)
(* pc is the statement about to run: m_* are lines of main.py, s_* of      *)
(* Strategy.__init__, t_* of Strategy.train, b_* of the training loop of   *)
(* train_by_epoch and e_* of its evaluation pass.  A statement that raises *)
(* leaves pc where it is and sets exc; the exception is then caught by     *)
(* run (RunExcept) or ends the process (Uncaught).                         *)
(*                                                                         *)
(* strategy.py is written against a network class that vae.py does not     *)
(* define: it constructs it with 8 arguments, calls it with 2 inputs and   *)
(* unpacks 4 results when training and 3 when evaluating, and vae.py's VAE *)
(* takes 6 and 1 and returns 4.  network is the interface of the class     *)
(* bound to the name vae: VaePy is the repository as it is; CallSite is    *)
(* the interface the call sites of strategy.py need, which is what lets    *)
(* the statements after those calls run at all.                            *)
(***************************************************************************)

\* the class VAE of src/query/graph/vae.py: __init__ (lines 115-116), forward
\* (line 150) and what forward returns (line 171)
VaePy == [init_params |-> 6, forward_inputs |-> 1,
          train_outputs |-> 4, eval_outputs |-> 4]

\* a class as the call sites of strategy.py use it: vae(...) at lines 62-65,
\* self.vae(data, u_score) unpacked at line 148 and at line 178
CallSite == [init_params |-> 8, forward_inputs |-> 2,
             train_outputs |-> 4, eval_outputs |-> 3]

\* Query(config, 50000), main.py line 10
PoolSize == 50000

\* config.budge_size
BudgeSizes == {1, 2}

NoWeights == [from_file |-> FALSE, w |-> 0]
NoFile == [exists |-> FALSE, w |-> 0]
NoStrategy == [step_cnt |-> 0, best_acc |-> <<0, 1>>, epoch |-> 0,
               task |-> NoWeights, vae |-> 0]
NoFrame == [epochs_run |-> 0, curr_it |-> 0, test_it |-> 0, total |-> 0,
            correct |-> 0, loss_terms |-> {}]
NoTask == [step |-> 0, labeled |-> 0, best_acc |-> 0]

ProgIdle ==
    /\ network = VaePy
    /\ config = [max_cycle |-> 0, budge_size |-> 1, epoch |-> 0]
    /\ loader = [train |-> 1, test |-> 1]
    /\ pc = "idle"
    /\ exc = "none"
    /\ next_step = 0
    /\ step_cnt = 0
    /\ labeled = 0
    /\ task = NoTask
    /\ stdout = << >>
    /\ trace = << >>
    /\ self = NoStrategy
    /\ frame = NoFrame
    /\ ops = << >>
    /\ task_file = NoFile
    /\ vae_file = NoFile

\* the process starts: Config's fields and the lengths of the two data
\* loaders are inputs, and task.pth.tar may be there from an earlier run
ProgStart ==
    /\ network \in {VaePy, CallSite}
    /\ config \in [max_cycle : 1..MaxCycle, budge_size : BudgeSizes,
                   epoch : 0..MaxEpoch]
    /\ loader \in [train : 1..MaxBatches, test : 1..MaxBatches]
    /\ pc = "m_config"
    /\ exc = "none"
    /\ next_step = 0
    /\ step_cnt = 0
    /\ labeled = 0
    /\ task = NoTask
    /\ stdout = << >>
    /\ trace = << >>
    /\ self = NoStrategy
    /\ frame = NoFrame
    /\ ops = << >>
    /\ task_file \in {NoFile, [exists |-> TRUE, w |-> 0]}
    /\ vae_file = NoFile

\* the statements inside the try block of Strategy.run (line 125)
TryPcs == {"t_for", "b_zero", "b_fwd", "b_loss", "b_back1", "b_back2",
           "b_step", "b_avg", "e_sched", "e_fwd", "e_cmp"}

\* the statements of Strategy.__init__ and Strategy.run
StrategyPcs == {"m_strategy", "s_load", "m_run"} \cup TryPcs

Running == pc \notin {"idle", "exit", "crashed"} /\ exc = "none"

Performed(op) == Append(trace, [op |-> op, step |-> step_cnt])

\* ---------------------------------------------------------------- main.py

\* line 9
MainConfig ==
    /\ Running /\ pc = "m_config"
    /\ pc' = "m_query"
    /\ UNCHANGED <<network, config, loader, exc, next_step, step_cnt, labeled,
                   task, stdout, trace, self, frame, ops, task_file, vae_file>>

\* line 10: Query.labeled starts empty
MainQuery ==
    /\ Running /\ pc = "m_query"
    /\ labeled' = 0
    /\ trace' = Performed("Query")
    /\ pc' = "m_for"
    /\ UNCHANGED <<network, config, loader, exc, next_step, step_cnt,
                   task, stdout, self, frame, ops, task_file, vae_file>>

\* line 12: for step_cnt in range(config.max_cycle)
MainFor ==
    /\ Running /\ pc = "m_for"
    /\ IF next_step < config.max_cycle
       THEN /\ step_cnt' = next_step
            /\ next_step' = next_step + 1
            /\ pc' = "m_strategy"
       ELSE /\ pc' = "exit"
            /\ UNCHANGED <<step_cnt, next_step>>
    /\ UNCHANGED <<network, config, loader, exc, labeled, task, stdout, trace,
                   self, frame, ops, task_file, vae_file>>

\* line 18, Query.sampling(): budge_size examples move to the labeled pool,
\* or the call is rejected when fewer are left unlabeled
MainSampling ==
    /\ Running /\ pc = "m_sampling"
    /\ IF PoolSize - labeled >= config.budge_size
       THEN /\ labeled' = labeled + config.budge_size
            /\ trace' = Performed("sampling")
            /\ pc' = "m_print_count"
            /\ exc' = exc
       ELSE /\ exc' = "InsufficientPool"
            /\ UNCHANGED <<labeled, trace, pc>>
    /\ UNCHANGED <<network, config, loader, next_step, step_cnt, task, stdout,
                   self, frame, ops, task_file, vae_file>>

\* line 21: (step_cnt + 1) * config.budge_size
TrainDataCount(k, b) == (k + 1) * b

\* line 21
MainPrintCount ==
    /\ Running /\ pc = "m_print_count"
    /\ stdout' = Append(stdout, [line |-> 21, step |-> step_cnt + 1,
                     value |-> TrainDataCount(step_cnt, config.budge_size)])
    /\ pc' = "m_task"
    /\ UNCHANGED <<network, config, loader, exc, next_step, step_cnt, labeled,
                   task, trace, self, frame, ops, task_file, vae_file>>

\* line 23: Task(config, step_cnt + 1, query.labeled[:])
MainTask ==
    /\ Running /\ pc = "m_task"
    /\ task' = [step |-> step_cnt + 1, labeled |-> labeled, best_acc |-> 0]
    /\ trace' = Performed("Task")
    /\ pc' = "m_task_run"
    /\ UNCHANGED <<network, config, loader, exc, next_step, step_cnt, labeled,
                   stdout, self, frame, ops, task_file, vae_file>>

\* line 24, Classification.run(): the classifier is trained, and when its
\* test accuracy improves task.pth.tar is written
MainTaskRun ==
    /\ Running /\ pc = "m_task_run"
    /\ \E improved \in BOOLEAN :
          /\ task' = [task EXCEPT !.best_acc = IF improved THEN 1 ELSE 0]
          /\ task_file' = IF improved
                          THEN [exists |-> TRUE, w |-> task.step]
                          ELSE task_file
    /\ trace' = Performed("Task.run")
    /\ pc' = "m_print_acc"
    /\ UNCHANGED <<network, config, loader, exc, next_step, step_cnt, labeled,
                   stdout, self, frame, ops, vae_file>>

\* line 26
MainPrintAcc ==
    /\ Running /\ pc = "m_print_acc"
    /\ stdout' = Append(stdout, [line |-> 26, step |-> step_cnt + 1,
                                 value |-> task.best_acc])
    /\ pc' = "m_for"
    /\ UNCHANGED <<network, config, loader, exc, next_step, step_cnt, labeled,
                   task, trace, self, frame, ops, task_file, vae_file>>

\* ------------------------------------------------------- Strategy.__init__

\* the arguments of vae(...) at lines 62-65
VaeInitArgs == 8

\* main.py line 14 and Strategy.__init__ lines 27-88: the fields, the
\* loaders, a fresh classifier, and the network, whose constructor raises
\* TypeError unless it takes the arguments it is given
StrategyInit ==
    /\ Running /\ pc = "m_strategy"
    /\ IF network.init_params = VaeInitArgs
       THEN /\ self' = [step_cnt |-> step_cnt, best_acc |-> <<0, 1>>,
                        epoch |-> 0, task |-> NoWeights, vae |-> 0]
            /\ pc' = "s_load"
            /\ exc' = exc
       ELSE /\ exc' = "TypeError"
            /\ UNCHANGED <<self, pc>>
    /\ UNCHANGED <<network, config, loader, next_step, step_cnt, labeled,
                   task, stdout, trace, frame, ops, task_file, vae_file>>

\* load_checkpoint, lines 101-112: the weights under task_state_dict, or,
\* torch.load raising OSError for a file that is not there, the weights the
\* classifier has
LoadedWeights(w, file) ==
    IF file.exists THEN [from_file |-> TRUE, w |-> file.w] ELSE w

\* Strategy.__init__ lines 90-95: load_checkpoint, the summary writer and
\* print_train_info; the constructor returns
StrategyLoad ==
    /\ Running /\ pc = "s_load"
    /\ self' = [self EXCEPT !.task = LoadedWeights(self.task, task_file)]
    /\ trace' = Performed("Strategy")
    /\ pc' = "m_run"
    /\ UNCHANGED <<network, config, loader, exc, next_step, step_cnt, labeled,
                   task, stdout, frame, ops, task_file, vae_file>>

\* ------------------------------------------- Strategy.run, Strategy.train

\* main.py line 15 and run, lines 123-125: the try block is entered
Run ==
    /\ Running /\ pc = "m_run"
    /\ frame' = NoFrame
    /\ ops' = << >>
    /\ pc' = "t_for"
    /\ UNCHANGED <<network, config, loader, exc, next_step, step_cnt, labeled,
                   task, stdout, trace, self, task_file, vae_file>>

\* train, lines 130-133, and lines 135-139 of train_by_epoch: one more
\* epoch, or train and run return
Train ==
    /\ Running /\ pc = "t_for"
    /\ IF frame.epochs_run < config.epoch
       THEN /\ self' = [self EXCEPT !.epoch = self.epoch + 1]
            /\ frame' = [frame EXCEPT !.epochs_run = frame.epochs_run + 1,
                                      !.curr_it = 0]
            /\ pc' = IF loader.train > 0 THEN "b_zero" ELSE "e_sched"
            /\ trace' = trace
       ELSE /\ trace' = Performed("Strategy.run")
            /\ pc' = "m_sampling"
            /\ UNCHANGED <<self, frame>>
    /\ UNCHANGED <<network, config, loader, exc, next_step, step_cnt, labeled,
                   task, stdout, ops, task_file, vae_file>>

\* -------------------------------- train_by_epoch: the training batches

\* the inputs of self.vae(data, u_score), lines 148 and 178
ForwardArgs == 2
\* the names line 148 unpacks the result into
TrainUnpack == 4
\* the names line 178 unpacks the result into
EvalUnpack == 3

\* what self.vae(data, u_score) unpacked into n names raises, if anything
ForwardRaises(outputs, n) ==
    IF network.forward_inputs # ForwardArgs THEN "TypeError"
    ELSE IF outputs # n THEN "ValueError"
    ELSE "none"

\* lines 140-142
BatchZeroGrad ==
    /\ Running /\ pc = "b_zero"
    /\ ops' = <<"zero_grad">>
    /\ pc' = "b_fwd"
    /\ UNCHANGED <<network, config, loader, exc, next_step, step_cnt, labeled,
                   task, stdout, trace, self, frame, task_file, vae_file>>

\* lines 144-148
BatchForward ==
    /\ Running /\ pc = "b_fwd"
    /\ exc' = ForwardRaises(network.train_outputs, TrainUnpack)
    /\ pc' = IF exc' = "none" THEN "b_loss" ELSE pc
    /\ UNCHANGED <<network, config, loader, next_step, step_cnt, labeled,
                   task, stdout, trace, self, frame, ops, task_file, vae_file>>

\* lines 150-153: the terms of loss in the cycle self.step_cnt
LossTerms(cycle) ==
    {"recon_error", "vq_loss"} \cup (IF cycle # 0 THEN {"distance"} ELSE {})

\* lines 150-153
BatchLoss ==
    /\ Running /\ pc = "b_loss"
    /\ frame' = [frame EXCEPT !.loss_terms = LossTerms(self.step_cnt)]
    /\ ops' = Append(ops, "loss")
    /\ pc' = "b_back1"
    /\ UNCHANGED <<network, config, loader, exc, next_step, step_cnt, labeled,
                   task, stdout, trace, self, task_file, vae_file>>

\* line 154
BatchBackward ==
    /\ Running /\ pc = "b_back1"
    /\ ops' = Append(ops, "backward")
    /\ pc' = "b_back2"
    /\ UNCHANGED <<network, config, loader, exc, next_step, step_cnt, labeled,
                   task, stdout, trace, self, frame, task_file, vae_file>>

\* line 156: loss.backward() once more.  The first call has freed the
\* buffers of the graph unless no operation of the graph kept any, which is
\* decided by code that is not in src (the network and Loss): the call
\* raises RuntimeError or accumulates the gradients a second time.
BatchBackwardAgain ==
    /\ Running /\ pc = "b_back2"
    /\ ops' = Append(ops, "backward")
    /\ \E freed \in BOOLEAN :
          /\ exc' = IF freed THEN "RuntimeError" ELSE "none"
          /\ pc' = IF freed THEN pc ELSE "b_step"
    /\ UNCHANGED <<network, config, loader, next_step, step_cnt, labeled,
                   task, stdout, trace, self, frame, task_file, vae_file>>

\* line 157
BatchStep ==
    /\ Running /\ pc = "b_step"
    /\ self' = [self EXCEPT !.vae = self.vae + 1]
    /\ ops' = Append(ops, "step")
    /\ pc' = "b_avg"
    /\ UNCHANGED <<network, config, loader, exc, next_step, step_cnt, labeled,
                   task, stdout, trace, frame, task_file, vae_file>>

\* line 158, and line 139 for the next batch
BatchAverage ==
    /\ Running /\ pc = "b_avg"
    /\ ops' = Append(ops, "update")
    /\ frame' = [frame EXCEPT !.curr_it = frame.curr_it + 1]
    /\ pc' = IF frame.curr_it + 1 < loader.train THEN "b_zero" ELSE "e_sched"
    /\ UNCHANGED <<network, config, loader, exc, next_step, step_cnt, labeled,
                   task, stdout, trace, self, task_file, vae_file>>

\* ------------------------------- train_by_epoch: the evaluation pass

\* lines 160-169: the scheduler steps; total and correct start at 0
EpochScheduler ==
    /\ Running /\ pc = "e_sched"
    /\ frame' = [frame EXCEPT !.total = 0, !.correct = 0, !.test_it = 0]
    /\ pc' = IF loader.test > 0 THEN "e_fwd" ELSE "e_cmp"
    /\ UNCHANGED <<network, config, loader, exc, next_step, step_cnt, labeled,
                   task, stdout, trace, self, ops, task_file, vae_file>>

\* lines 170-183: one test batch; neither total nor correct is assigned
EvalBatch ==
    /\ Running /\ pc = "e_fwd"
    /\ exc' = ForwardRaises(network.eval_outputs, EvalUnpack)
    /\ IF exc' = "none"
       THEN /\ frame' = [frame EXCEPT !.test_it = frame.test_it + 1]
            /\ pc' = IF frame.test_it + 1 < loader.test THEN "e_fwd" ELSE "e_cmp"
       ELSE UNCHANGED <<frame, pc>>
    /\ UNCHANGED <<network, config, loader, next_step, step_cnt, labeled,
                   task, stdout, trace, self, ops, task_file, vae_file>>

\* correct / total > self.best_acc, line 187, for total # 0; best_acc is the
\* quotient <<numerator, denominator>>
Improves(correct, total, best) == correct * best[2] > best[1] * total

\* save_checkpoint, lines 114-121: vae.pth.tar holds the network's weights
SaveCheckpoint(weights) == [exists |-> TRUE, w |-> weights]

\* lines 187-189: correct / total raises ZeroDivisionError for total = 0;
\* a greater accuracy becomes best_acc and the checkpoint is saved
EvalCompare ==
    /\ Running /\ pc = "e_cmp"
    /\ IF frame.total = 0
       THEN /\ exc' = "ZeroDivisionError"
            /\ UNCHANGED <<self, vae_file, pc>>
       ELSE /\ exc' = exc
            /\ pc' = "t_for"
            /\ IF Improves(frame.correct, frame.total, self.best_acc)
               THEN /\ self' = [self EXCEPT
                                  !.best_acc = <<frame.correct, frame.total>>]
                    /\ vae_file' = SaveCheckpoint(self.vae)
               ELSE UNCHANGED <<self, vae_file>>
    /\ UNCHANGED <<network, config, loader, next_step, step_cnt, labeled,
                   task, stdout, trace, frame, ops, task_file>>

\* ------------------------------------------------------------ exceptions

\* CTRL+C while the process runs
Interrupt ==
    /\ Running
    /\ exc' = "KeyboardInterrupt"
    /\ UNCHANGED <<network, config, loader, pc, next_step, step_cnt, labeled,
                   task, stdout, trace, self, frame, ops, task_file, vae_file>>

\* the mutant of RunCatches: a bare except
RunCatchesAll(e) == TRUE

\* run, line 127: except KeyboardInterrupt
RunCatches(e) == e = "KeyboardInterrupt"

\* run, lines 127-128: the exception is caught, the handler prints, and run
\* returns
RunExcept ==
    /\ exc # "none" /\ pc \in TryPcs /\ RunCatches(exc)
    /\ exc' = "none"
    /\ stdout' = Append(stdout, [line |-> 128, step |-> step_cnt + 1,
                                 value |-> 0])
    /\ trace' = Performed("Strategy.run")
    /\ pc' = "m_sampling"
    /\ UNCHANGED <<network, config, loader, next_step, step_cnt, labeled,
                   task, self, frame, ops, task_file, vae_file>>

\* no handler: the exception leaves main.py and the process ends
Uncaught ==
    /\ exc # "none" /\ pc # "crashed"
    /\ ~(pc \in TryPcs /\ RunCatches(exc))
    /\ pc' = "crashed"
    /\ UNCHANGED <<network, config, loader, exc, next_step, step_cnt, labeled,
                   task, stdout, trace, self, frame, ops, task_file, vae_file>>

(***************************************************************************)
(* The specifications.                                                     *)
(***************************************************************************)
notProgVars == <<lossVars, vaeVars>>
notLossVars == <<vaeVars, progVars>>
notVaeVars == <<lossVars, progVars>>

\* the program
Init == ProgStart /\ LossIdle /\ VaeIdle
Next ==
    \/ MainConfig /\ UNCHANGED notProgVars
    \/ MainQuery /\ UNCHANGED notProgVars
    \/ MainFor /\ UNCHANGED notProgVars
    \/ StrategyInit /\ UNCHANGED notProgVars
    \/ StrategyLoad /\ UNCHANGED notProgVars
    \/ Run /\ UNCHANGED notProgVars
    \/ Train /\ UNCHANGED notProgVars
    \/ BatchZeroGrad /\ UNCHANGED notProgVars
    \/ BatchForward /\ UNCHANGED notProgVars
    \/ BatchLoss /\ UNCHANGED notProgVars
    \/ BatchBackward /\ UNCHANGED notProgVars
    \/ BatchBackwardAgain /\ UNCHANGED notProgVars
    \/ BatchStep /\ UNCHANGED notProgVars
    \/ BatchAverage /\ UNCHANGED notProgVars
    \/ EpochScheduler /\ UNCHANGED notProgVars
    \/ EvalBatch /\ UNCHANGED notProgVars
    \/ EvalCompare /\ UNCHANGED notProgVars
    \/ MainSampling /\ UNCHANGED notProgVars
    \/ MainPrintCount /\ UNCHANGED notProgVars
    \/ MainTask /\ UNCHANGED notProgVars
    \/ MainTaskRun /\ UNCHANGED notProgVars
    \/ MainPrintAcc /\ UNCHANGED notProgVars
    \/ Interrupt /\ UNCHANGED notProgVars
    \/ RunExcept /\ UNCHANGED notProgVars
    \/ Uncaught /\ UNCHANGED notProgVars
Spec == Init /\ [][Next]_vars

\* RankingLoss.forward
LossInit == LossStart /\ VaeIdle /\ ProgIdle
LossNext ==
    \/ LossPredDiff /\ UNCHANGED notLossVars
    \/ LossTargetDiff /\ UNCHANGED notLossVars
    \/ LossOne /\ UNCHANGED notLossVars
    \/ LossHinge /\ UNCHANGED notLossVars
    \/ LossDivide /\ UNCHANGED notLossVars
SpecLoss == LossInit /\ [][LossNext]_vars

\* VAE.forward and Decoder.forward
VaeInit == VaeStart /\ LossIdle /\ ProgIdle
VaeNext ==
    \/ VaeEncode /\ UNCHANGED notVaeVars
    \/ VaeDownsample /\ UNCHANGED notVaeVars
    \/ VaeFcMu /\ UNCHANGED notVaeVars
    \/ DecoderForward /\ UNCHANGED notVaeVars
SpecVae == VaeInit /\ [][VaeNext]_vars

(***************************************************************************)
(* Claims about RankingLoss.forward, checked under SpecLoss.               *)
(***************************************************************************)
BatchLen == Len(batch_pred)
EvenBatch == BatchLen % 2 = 0
LossEnded == lpc \in {"returned", "shape_error"}

\* s_i of the pair (i, N+1-i): +1 when the first target loss is the greater
PairSign(t, i) == IF t[i] > t[Len(t) + 1 - i] THEN 1 ELSE -1

\* max(0, 1 - s_i * (p[i] - p[N+1-i]))
PairHinge(p, t, i) ==
    LET h == 1 - PairSign(t, i) * (p[i] - p[Len(p) + 1 - i])
    IN  IF h > 0 THEN h ELSE 0

\* the sum of the hinge terms of the pairs 1..k
RECURSIVE PairHingeSum(_, _, _)
PairHingeSum(p, t, k) ==
    IF k = 0 THEN 0 ELSE PairHinge(p, t, k) + PairHingeSum(p, t, k - 1)

\* C6: for an even batch of N >= 2 losses forward returns
\* (sum over the pairs (i, N-1-i) of max(0, 1 - s_i * (p[i] - p[N-1-i]))) / (N/2),
\* s_i = +1 when t[i] > t[N-1-i] and -1 otherwise (ties included); the
\* divisor is the number of pairs, not N.
C6_EvenBatchLoss ==
    (EvenBatch /\ LossEnded) =>
        /\ lpc = "returned"
        /\ ~loss.nan
        /\ loss.den = BatchLen \div 2
        /\ loss.num = PairHingeSum(batch_pred, batch_target, BatchLen \div 2)

\* forward has returned for a batch of two pairs, one of them tied in its
\* targets, with a positive loss
C6_Witness ==
    /\ lpc = "returned"
    /\ BatchLen = 4
    /\ batch_target[1] = batch_target[4]
    /\ batch_target[2] > batch_target[3]
    /\ loss.num > 0

\* the value num/den of a returned loss is not negative
NonNegative(q) == q.nan \/ (q.den > 0 /\ q.num >= 0)

\* every pair whose target losses are equal has equal predicted losses too
TiesAgree(p, t) ==
    \A i \in 1..(Len(p) \div 2) :
        t[i] = t[Len(t) + 1 - i] => p[i] = p[Len(p) + 1 - i]

\* C7 as stated: for an even batch the loss is non-negative, a function of
\* the inputs only, and the same for the two inputs both reversed.
C7_ReversalInvariant ==
    (EvenBatch /\ lpc = "returned") =>
        /\ NonNegative(loss)
        /\ loss = Forward(batch_pred, batch_target)
        /\ Forward(Flip(batch_pred), Flip(batch_target)) = loss

\* C7 as amended: for an even batch the loss is non-negative, a function of
\* the inputs only, and the same for the two inputs both reversed provided
\* every pair with equal target losses also has equal predicted losses (so
\* whenever no pair's target losses tie).
C7_ReversalWithoutTies ==
    (EvenBatch /\ lpc = "returned") =>
        /\ NonNegative(loss)
        /\ loss = Forward(batch_pred, batch_target)
        /\ TiesAgree(batch_pred, batch_target) =>
               Forward(Flip(batch_pred), Flip(batch_target)) = loss

\* forward has returned a positive loss for a batch of two pairs, neither
\* tied in its targets, and one pair beyond the margin
C7_Witness ==
    /\ lpc = "returned"
    /\ BatchLen = 4
    /\ batch_target[1] # batch_target[4]
    /\ batch_target[2] # batch_target[3]
    /\ batch_pred[1] - batch_pred[4] = 2
    /\ loss.num > 0

\* C10 as stated: for an odd batch the predicted differences and the target
\* signs have different lengths and forward fails with a shape mismatch.
C10_OddBatchFails ==
    (~EvenBatch /\ LossEnded) => lpc = "shape_error"

\* C10 as amended: for an odd batch of N losses forward raises no shape
\* mismatch: the predicted differences and the target signs both have
\* (N-1)/2 elements (the middle example is in no pair) and forward returns
\* the sum of the (N-1)/2 hinge terms over (N-1)/2, which for N = 1 is
\* 0/0, nan.
C10_OddBatchDropsMiddle ==
    ~EvenBatch =>
        /\ lpc # "shape_error"
        /\ lpc \in {"l29", "l30", "returned"} =>
               /\ Len(pred_loss) = (BatchLen - 1) \div 2
               /\ Len(one) = (BatchLen - 1) \div 2
        /\ lpc = "returned" =>
               /\ loss.den = (BatchLen - 1) \div 2
               /\ loss.num = PairHingeSum(batch_pred, batch_target, (BatchLen - 1) \div 2)
               /\ loss.nan <=> BatchLen = 1

\* forward has returned a positive loss for a batch of three
C10_Witness ==
    /\ lpc = "returned"
    /\ BatchLen = 3
    /\ ~loss.nan
    /\ loss.num > 0



(***************************************************************************)
(* Claims about the program, checked under Spec.                           *)
(***************************************************************************)
IsPrefix(a, b) == Len(a) <= Len(b) /\ SubSeq(b, 1, Len(a)) = a

\* the process has ended, and not because of CTRL+C
EndedUninterrupted ==
    pc \in {"exit", "crashed"} /\ exc # "KeyboardInterrupt"

\* what main.py performs in cycle k, in order
CycleCalls(k) ==
    <<[op |-> "Strategy", step |-> k], [op |-> "Strategy.run", step |-> k],
      [op |-> "sampling", step |-> k], [op |-> "Task", step |-> k],
      [op |-> "Task.run", step |-> k]>>

\* what main.py performs in the cycles 0..n-1, after constructing Query
RECURSIVE MainCalls(_)
MainCalls(n) ==
    IF n = 0 THEN <<[op |-> "Query", step |-> 0]>>
    ELSE MainCalls(n - 1) \o CycleCalls(n - 1)

\* the calls of main.py are made in the order of the cycle loop
MainOrder == IsPrefix(trace, MainCalls(config.max_cycle))

\* C1: for every cycle step_cnt in 0..max_cycle-1 main.py performs, in this
\* order and each once, Strategy(step_cnt), Strategy.run(), Query.sampling(),
\* Classification(a copy of Query.labeled), Classification.run(); a cycle
\* starts after the one before has ended, Query is constructed once before
\* all cycles, and the labeled pool changes once per cycle, in sampling().
C1_EveryCycleInOrder ==
    network = VaePy =>
        /\ MainOrder
        /\ EndedUninterrupted =>
              /\ trace = MainCalls(config.max_cycle)
              /\ labeled = config.max_cycle * config.budge_size
              /\ task.labeled = labeled

\* C2: a Strategy constructed while task.pth.tar does not exist is
\* constructed and run without error: the load failure is recovered in
\* load_checkpoint, the classifier keeps its fresh weights and no exception
\* reaches the caller; when the file exists the classifier's weights after
\* construction are the ones stored under task_state_dict.
C2_MissingCheckpointTolerated ==
    network = VaePy =>
        /\ (pc \in StrategyPcs /\ ~task_file.exists) =>
              exc \in {"none", "KeyboardInterrupt"}
        /\ pc = "m_run" =>
              self.task = IF task_file.exists
                          THEN [from_file |-> TRUE, w |-> task_file.w]
                          ELSE NoWeights

\* C3: run returns normally when KeyboardInterrupt is raised at any point of
\* train, and vae.pth.tar is left as the last completed save_checkpoint wrote
\* it (only save_checkpoint, at the end of an epoch, writes it); any other
\* exception raised in train leaves run for the caller.
C3_RunCatchesOnlyInterrupt ==
    /\ [][(pc \in TryPcs /\ exc = "KeyboardInterrupt") =>
             (pc' = "m_sampling" /\ exc' = "none" /\ vae_file' = vae_file)]_vars
    /\ [][(pc \in TryPcs /\ exc \notin {"none", "KeyboardInterrupt"}) =>
             (pc' = "crashed" /\ exc' = exc)]_vars
    /\ [][vae_file' # vae_file =>
             (pc = "e_cmp" /\ vae_file' = SaveCheckpoint(self.vae))]_vars

\* run has returned from a CTRL+C in one cycle (its handler has printed),
\* and in a later cycle an exception raised in train has ended the process
C3_Witness ==
    /\ pc = "crashed"
    /\ exc \in {"TypeError", "ValueError", "RuntimeError", "ZeroDivisionError"}
    /\ self.epoch > 0
    /\ \E i \in 1..Len(stdout) : stdout[i].line = 128

\* C4: at the end of every epoch of train_by_epoch the evaluation pass has
\* an accuracy correct/total, vae.pth.tar is written in the epochs where it
\* exceeds best_acc, and the epoch completes without raising.
C4_EpochEndsWithAccuracy ==
    pc \in TryPcs => exc # "ZeroDivisionError"

\* the lines 21 of stdout
RECURSIVE Counts(_)
Counts(out) ==
    IF out = << >> THEN << >>
    ELSE IF out[1].line = 21 THEN <<out[1].value>> \o Counts(Tail(out))
    ELSE Counts(Tail(out))

\* C5: the training data count printed after cycle k (from 1) is k * b for
\* the budget b, and the counts of a run increase by b from cycle to cycle.
C5_CountsReported ==
    network = VaePy =>
        /\ \A k \in 1..Len(Counts(stdout)) :
              Counts(stdout)[k] = k * config.budge_size
        /\ EndedUninterrupted => Len(Counts(stdout)) = config.max_cycle

\* C9: a training batch zeroes the gradients, computes the loss (with the
\* distance term exactly when step_cnt # 0), back-propagates once, steps the
\* optimizer once and updates the average loss, in this order, with no second
\* back-propagation between the gradient reset and the optimizer step.
C9_BatchOrder ==
    /\ IsPrefix(ops, <<"zero_grad", "loss", "backward", "step", "update">>)
    /\ pc \in {"b_back1", "b_back2", "b_step", "b_avg"} =>
          ("distance" \in frame.loss_terms <=> self.step_cnt # 0)

(***************************************************************************)
(* Claims about the uncertainty network, checked under SpecVae.            *)
(***************************************************************************)
\* C8: for a batch of 3-channel 32x32 images and a hidden width H the
\* encoder's output has H channels and is 4x4, so that the tensor handed to
\* fc_mu and fc_var has the H*16 features per example these layers require;
\* and the decoder, given an (embedding_dim+H)-channel 4x4 input, returns a
\* 3-channel 32x32 output.
C8_ShapeContract ==
    /\ vpc \in {"l152", "l154", "l155", "size_mismatch"} =>
          encoder_out = <<x[1], hparams.num_hiddens, 4, 4>>
    /\ vpc # "size_mismatch"
    /\ dpc # "l101" => x_recon = <<inputs[1], 3, 32, 32>>

=============================================================================
